---- MODULE Spec2Model ----
(***************************************************************************)
(* The snapshotter of one replica (src/snapshotter.go): Save, Commit,      *)
(* Compact, ProcessOrphans and Stream, over the replica's snapshot         *)
(* directory and the log database's snapshot list.                         *)
(*                                                                         *)
(* The snapshot environment (server.SSEnv), the log database               *)
(* (raftio.ILogDB) and the chunk writer (rsm.ChunkWriter) belong to this   *)
(* repository but their code is not among the source files; they are       *)
(* modelled after sections 4.1, 4.3 and 6 of the specification.            *)
(***************************************************************************)
EXTENDS Integers, Sequences, FiniteSets, TLC

\* ------------------------------------------------------------------ bounds
\* Snapshot indices are 1..MaxIndex.
MaxIndex == 5
\* Save is called for the indices 1..MaxSaveIndex.
MaxSaveIndex == 4
\* Exported snapshots are requested for the indices 1..MaxExportIndex.
MaxExportIndex == 1
\* The state machine streams at most MaxChunks chunks into the sink.
MaxChunks == 1
\* At most MaxFaults I/O errors, log database errors and crashes are injected.
MaxFaults == 2
\* A Save begins only while fewer than MaxTempDirs other temp dirs lie around.
MaxTempDirs == 1
\* ProcessOrphans is started on directories with at most MaxZombies
\* generating-* and receiving-* directories.
MaxZombies == 2
\* ... and with at most MaxEmptyFlags final directories whose flag file
\* holds an empty snapshot.
MaxEmptyFlags == 1

\* ------------------------------------------------------- program constants
snapshotsToKeep == 3

Index == 1..MaxIndex
SaveIndex == 1..MaxSaveIndex
ExportIndex == 1..MaxExportIndex

\* The two directory trees an SSEnv can be rooted at: the replica's own
\* snapshot directory (getSSEnv) and the caller-supplied path of an exported
\* snapshot (getCustomSSEnv).
Roots == {"node", "export"}

\* Request.Path of a request: empty, or the path an exported snapshot goes to.
Paths == {"", "/export"}

\* meta.CompressionType: the two known types and a value that is neither.
CompressionTypes == {"none", "snappy", "unknown"}

\* A directory slot is Absent, or present with its flag file missing
\* (NoFlag), or present with a flag file whose message has Index k >= 1, or
\* present with a flag file that holds an empty snapshot (EmptyFlag).
Absent == -1
NoFlag == 0
EmptyFlag == -2
DirState == {EmptyFlag} \cup (Absent..MaxIndex)

VARIABLES
  temp,      \* temp[r][i]: generating-<i>-<node> under root r
  finalDir,  \* finalDir[r][i]: snapshot-<i> under root r
  logdb,     \* logdb[i]: "none" | "real" | "dummy", the replica's snapshot list
  pending,   \* the record the last successful Save returned to the caller
  pc,        \* position of the owner goroutine inside the running operation
  req,       \* the snapshot and request of the running Save / Commit
  upTo,      \* removeUpTo of the running Compact
  todo,      \* the entries a running loop still has to visit
  pre,       \* log database and final directories when the operation began
  result,    \* what the operation returns
  round,     \* 2 while ProcessOrphans runs again right after a successful run
  onDisk,    \* whether the replica's state machine is an on-disk state machine
  faults,    \* the number of errors and crashes injected so far
  spc,       \* position of the streaming worker inside Stream
  sink,      \* the chunk sink Stream was given
  sresult,   \* what Stream returns
  recv,      \* recv[i]: receiving-<i>-<node> under the replica's root
  stray,     \* the other entries of the replica's root: a plain file, a
             \* directory whose name matches none of the patterns
  shrunk,    \* the indices whose payload file under the replica's root is shrunk
  file       \* the snapshot file the running Load reads

vars == <<temp, finalDir, logdb, pending, pc, req, upTo, todo, pre, result,
          round, onDisk, faults, spc, sink, sresult, recv, stray, shrunk, file>>
fsVars == <<temp, finalDir, logdb>>
streamVars == <<spc, sink, sresult>>
\* What no operation of the owner goroutine changes.
others == <<onDisk, spc, sink, sresult, recv, stray, shrunk, file>>
\* The same, the receiving directories and the shrunk payloads aside.
rest == <<onDisk, spc, sink, sresult, stray, file>>

NoReq == [index |-> 0, dummy |-> FALSE, exported |-> FALSE, path |-> "",
          ct |-> "none"]
EmptyDirs == [r \in Roots |-> [i \in Index |-> Absent]]
EmptyLogDB == [i \in Index |-> "none"]
NoRecv == [i \in Index |-> Absent]
NoFile == [header |-> TRUE, payload |-> TRUE, compression |-> "none"]
NoPre == [logdb |-> EmptyLogDB, finalDir |-> EmptyDirs, temp |-> EmptyDirs,
          recv |-> NoRecv, shrunk |-> {}, stray |-> {}]

\* ------------------------------------------------------------ log database
\* ILogDB.ListSnapshots: the records with index <= maxIndex, ascending.
RECURSIVE ListFrom(_, _, _)
ListFrom(db, i, maxIndex) ==
  IF i > maxIndex \/ i > MaxIndex THEN <<>>
  ELSE IF db[i] # "none" THEN <<i>> \o ListFrom(db, i + 1, maxIndex)
       ELSE ListFrom(db, i + 1, maxIndex)

ListSnapshots(db, maxIndex) == ListFrom(db, 1, maxIndex)

\* ILogDB.SaveSnapshots with one update.
SaveSnapshots(db, ss) ==
  [db EXCEPT ![ss.index] = IF ss.dummy THEN "dummy" ELSE "real"]

\* ILogDB.DeleteSnapshot.
DeleteSnapshot(db, i) == [db EXCEPT ![i] = "none"]

\* ------------------------------------------------------------------- SSEnv
\* getCustomSSEnv: the root the environment is built on. An exported request
\* takes the caller-supplied path and panics when that path is empty; any
\* other request takes the replica's own snapshot directory.
RootOf(r) ==
  IF r.exported
  THEN IF r.path = "" THEN "panic" ELSE "export"
  ELSE "node"

\* create_temp_dir: creates the temp dir; an existing one is left as it is.
CreateTempDir(t, root, i) ==
  IF t[root][i] = Absent THEN [t EXCEPT ![root][i] = NoFlag] ELSE t

\* save_metadata: writes or overwrites the flag file inside the temp dir.
SaveSSMetadata(t, root, i) == [t EXCEPT ![root][i] = i]

\* finalize fails with OutOfDate if the final dir already exists.
FinalDirExists(f, root, i) == f[root][i] # Absent

\* remove_flag_file: removes the flag file from the final dir.
RemoveFlagFile(f, root, i) == [f EXCEPT ![root][i] = NoFlag]

\* remove_final_dir: the final dir is gone afterwards.
RemoveFinalDir(f, root, i) == [f EXCEPT ![root][i] = Absent]

\* fileutil.HasFlagFile on a final directory.
HasFlagFile(f, root, i) == f[root][i] >= 1 \/ f[root][i] = EmptyFlag

\* pb.IsEmptySnapshot on the message read from a flag file.
IsEmptySnapshot(ss) == ss = EmptyFlag

\* ------------------------------------------------------------- snapshotter
\* compressionType: panics on an unknown compression type.
compressionType(ct) == IF ct \in {"none", "snappy"} THEN "ok" ELSE "panic"

\* GetSnapshot: when ListSnapshots ends with `listed` = "err" its error is
\* returned with an empty record; otherwise the record with the index asked
\* for, or an empty record and ErrNoSnapshot.
GetSnapshot(db, index, listed) ==
  IF listed # "ok" THEN [index |-> 0, err |-> "err"]
  ELSE LET snapshots == ListSnapshots(db, index)
           hits == {k \in 1..Len(snapshots) : snapshots[k] = index}
       IN IF hits = {} THEN [index |-> 0, err |-> "ErrNoSnapshot"]
          ELSE [index |-> index, err |-> "nil"]

\* GetMostRecentSnapshot: the last listed index, or 0 for ErrNoSnapshot.
GetMostRecentSnapshot(db) ==
  LET snaps == ListSnapshots(db, MaxIndex)
  IN IF Len(snaps) > 0 THEN snaps[Len(snaps)] ELSE 0

\* Compact: whether the listed snapshots are few enough to keep them all.
CompactNothingToDo(snapshots) == Len(snapshots) <= snapshotsToKeep

\* Mutant: Compact selects the newest snapshots instead of the oldest.
CompactSelectedNewest(snapshots) ==
  SubSeq(snapshots, snapshotsToKeep + 1, Len(snapshots))

\* Mutant: Compact keeps one snapshot too few.
CompactSelectedOffByOne(snapshots) ==
  SubSeq(snapshots, 1, Len(snapshots) - snapshotsToKeep + 1)

\* Compact: selected := snapshots[:len(snapshots)-snapshotsToKeep].
CompactSelected(snapshots) ==
  SubSeq(snapshots, 1, Len(snapshots) - snapshotsToKeep)

\* Mutant: ProcessOrphans forgets the ErrNoSnapshot case.
OrphanDeleteDirForgetsEmpty(db, ssIndex) ==
  LET mrss == GetMostRecentSnapshot(db)
  IN mrss # 0 /\ mrss # ssIndex

\* Mutant: ProcessOrphans deletes every orphan.
OrphanDeleteDirAlways(db, ssIndex) == TRUE

\* ProcessOrphans: deleteDir for an orphan whose flag file holds ssIndex.
OrphanDeleteDir(db, ssIndex) ==
  LET mrss == GetMostRecentSnapshot(db)
  IN IF mrss = 0 THEN TRUE ELSE mrss # ssIndex

\* The entries of the replica's snapshot directory in ioutil.ReadDir's order
\* (sorted by name: generating-*, then a directory and a plain file with other
\* names, then receiving-*, then snapshot-*, each kind by index).
RECURSIVE EntriesFrom(_, _, _)
EntriesFrom(kind, d, i) ==
  IF i > MaxIndex THEN <<>>
  ELSE IF d[i] # Absent
       THEN <<[kind |-> kind, index |-> i]>> \o EntriesFrom(kind, d, i + 1)
       ELSE EntriesFrom(kind, d, i + 1)

StrayEntries(st) ==
  (IF "dir" \in st THEN <<[kind |-> "dir", index |-> 0]>> ELSE <<>>)
  \o (IF "file" \in st THEN <<[kind |-> "file", index |-> 0]>> ELSE <<>>)

ReadDir(t, st, rc, f) ==
  EntriesFrom("generating", t["node"], 1) \o StrayEntries(st)
  \o EntriesFrom("receiving", rc, 1) \o EntriesFrom("snapshot", f["node"], 1)

\* isOrphanDir: a snapshot-<i> name whose directory holds the flag file.
isOrphanDir(f, e) == e.kind = "snapshot" /\ HasFlagFile(f, "node", e.index)

\* Mutant: isZombieDir forgets the receiving-* pattern.
isZombieDirGeneratingOnly(e) == e.kind = "generating"

\* isZombieDir: a generating-* or receiving-* name.
isZombieDir(e) == e.kind = "generating" \/ e.kind = "receiving"

\* os.RemoveAll on a zombie directory.
RemoveAllTemp(t, e) ==
  IF e.kind = "generating" THEN [t EXCEPT !["node"][e.index] = Absent] ELSE t
RemoveAllRecv(rc, e) ==
  IF e.kind = "receiving" THEN [rc EXCEPT ![e.index] = Absent] ELSE rc

\* Mutant: Commit removes the flag file before it writes the log database.
CommitNextFlagFirst(step, outcome, exported) ==
  IF outcome # "ok" THEN "commit_done"
  ELSE CASE step = "commit_meta" -> "commit_finalize"
         [] step = "commit_finalize" -> "commit_rmflag"
         [] step = "commit_rmflag" ->
              IF ~exported THEN "commit_logdb" ELSE "commit_done"
         [] OTHER -> "commit_done"

\* Mutant: Commit tests IsExportedSnapshot the wrong way round.
CommitNextExportInverted(step, outcome, exported) ==
  IF outcome # "ok" THEN "commit_done"
  ELSE CASE step = "commit_meta" -> "commit_finalize"
         [] step = "commit_finalize" ->
              IF exported THEN "commit_logdb" ELSE "commit_rmflag"
         [] step = "commit_logdb" -> "commit_rmflag"
         [] OTHER -> "commit_done"

\* Mutant: Commit writes the log database before it finalizes the directory.
CommitNextLogDBFirst(step, outcome, exported) ==
  IF outcome # "ok" THEN "commit_done"
  ELSE CASE step = "commit_meta" ->
              IF ~exported THEN "commit_logdb" ELSE "commit_finalize"
         [] step = "commit_logdb" -> "commit_finalize"
         [] step = "commit_finalize" -> "commit_rmflag"
         [] OTHER -> "commit_done"

\* Commit's control flow: the step that follows `step` ending with `outcome`.
CommitNext(step, outcome, exported) ==
  IF outcome # "ok" THEN "commit_done"
  ELSE CASE step = "commit_meta" -> "commit_finalize"
         [] step = "commit_finalize" ->
              IF ~exported THEN "commit_logdb" ELSE "commit_rmflag"
         [] step = "commit_logdb" -> "commit_rmflag"
         [] OTHER -> "commit_done"

\* What Commit returns once it reaches commit_done ("none" while it runs).
CommitResult(step, outcome) ==
  IF outcome # "ok" THEN outcome
  ELSE IF step = "commit_rmflag" THEN "ok" ELSE "none"

\* The state an operation records when it begins.
Snapshot == [logdb |-> logdb, finalDir |-> finalDir, temp |-> temp,
             recv |-> recv, shrunk |-> shrunk, stray |-> stray]

\* ------------------------------------------------------------------- state
TypeOK ==
  /\ temp \in [Roots -> [Index -> DirState]]
  /\ finalDir \in [Roots -> [Index -> DirState]]
  /\ logdb \in [Index -> {"none", "real", "dummy"}]
  /\ pending \in [index : 0..MaxIndex, dummy : BOOLEAN, exported : BOOLEAN,
                  path : Paths, ct : CompressionTypes]
  /\ req \in [index : 0..MaxIndex, dummy : BOOLEAN, exported : BOOLEAN,
              path : Paths, ct : CompressionTypes]
  /\ upTo \in 0..MaxIndex
  /\ result \in {"none", "ok", "err", "closeerr", "outofdate", "panic"}
  /\ round \in {1, 2}
  /\ onDisk \in BOOLEAN
  /\ faults \in 0..MaxFaults
  /\ sink \in [stopped : BOOLEAN, chunks : 0..MaxChunks, last : BOOLEAN]
  /\ recv \in [Index -> {Absent, NoFlag}]
  /\ stray \subseteq {"file", "dir"}
  /\ shrunk \subseteq Index
  /\ file \in [header : BOOLEAN, payload : BOOLEAN,
               compression : CompressionTypes]

Init ==
  /\ temp = EmptyDirs
  /\ finalDir = EmptyDirs
  /\ logdb = EmptyLogDB
  /\ pending = NoReq
  /\ pc = "idle"
  /\ req = NoReq
  /\ upTo = 0
  /\ todo = <<>>
  /\ pre = NoPre
  /\ result = "none"
  /\ round = 1
  /\ onDisk \in BOOLEAN
  /\ faults = 0
  /\ spc = "idle"
  /\ sink = [stopped |-> FALSE, chunks |-> 0, last |-> FALSE]
  /\ sresult = "none"
  /\ recv = NoRecv
  /\ stray = {}
  /\ shrunk = {}
  /\ file = NoFile

\* A step that fails (an I/O error, a log database error) or a crash.
Fault == faults < MaxFaults /\ faults' = faults + 1
NoFault == UNCHANGED faults

\* The temp dirs lying around, the one at (root, i) aside.
OtherTempDirs(root, i) ==
  {p \in Roots \X Index : temp[p[1]][p[2]] # Absent /\ p # <<root, i>>}

\* -------------------------------------------------------------------- Save
\* Save is called for meta.Index = i with a request (exported or not, with
\* its Path) and a compression type. s.getCustomSSEnv(meta) comes first: an
\* exported request with an empty Path makes it panic before anything is
\* touched. A request that is not exported makes no use of its Path.
SaveStart(i, exported, path, ct) ==
  /\ pc = "idle"
  /\ exported => i \in ExportIndex
  /\ ~exported => path = ""
  /\ Cardinality(OtherTempDirs(IF exported THEN "export" ELSE "node", i)) < MaxTempDirs
  /\ req' = [index |-> i, dummy |-> FALSE, exported |-> exported,
             path |-> path, ct |-> ct]
  /\ IF RootOf(req') = "panic"
     THEN pc' = "save_done" /\ result' = "panic"
     ELSE pc' = "save_mktemp" /\ UNCHANGED result
  /\ pending' = NoReq
  /\ pre' = Snapshot
  /\ NoFault
  /\ UNCHANGED <<fsVars, upTo, todo, round, others>>

\* env.CreateTempDir().
SaveCreateTempDir ==
  /\ pc = "save_mktemp"
  /\ \/ /\ temp' = CreateTempDir(temp, RootOf(req), req.index)
        /\ pc' = "save_write"
        /\ NoFault
        /\ UNCHANGED result
     \/ /\ pc' = "save_done"
        /\ result' = "err"
        /\ Fault
        /\ UNCHANGED temp
  /\ UNCHANGED <<finalDir, logdb, pending, req, upTo, todo, pre, round, others>>

\* The dummy flag savable.SaveSnapshot reports: an on-disk state machine
\* saves a dummy snapshot unless the snapshot is exported.
SaveSnapshotDummy(r) == onDisk /\ ~r.exported

\* compressionType(meta.CompressionType), which panics on an unknown type
\* with the temp dir already created, then NewSnapshotWriter,
\* savable.SaveSnapshot, files.PrepareFiles and the deferred sw.Close():
\* everything they write stays inside the temp dir. When only sw.Close()
\* fails, Save returns its error next to the record it filled.
SaveWrite ==
  /\ pc = "save_write"
  /\ \/ /\ compressionType(req.ct) = "panic"
        /\ result' = "panic"
        /\ NoFault
        /\ UNCHANGED req
     \/ /\ compressionType(req.ct) = "ok"
        /\ req' = [req EXCEPT !.dummy = SaveSnapshotDummy(req)]
        /\ result' = "ok"
        /\ NoFault
     \/ /\ compressionType(req.ct) = "ok"
        /\ result' = "err"
        /\ Fault
        /\ UNCHANGED req
     \/ /\ compressionType(req.ct) = "ok"
        /\ req' = [req EXCEPT !.dummy = SaveSnapshotDummy(req)]
        /\ result' = "closeerr"
        /\ Fault
  /\ pc' = "save_done"
  /\ UNCHANGED <<fsVars, pending, upTo, todo, pre, round, others>>

\* The record (ss) Save returns next to its error: none when CreateTempDir,
\* NewSnapshotWriter, SaveSnapshot or PrepareFiles failed. The record has no
\* field for the compression type, and the meta Commit builds from it leaves
\* CompressionType at its zero value, NoCompression.
SaveRecord(res, r) ==
  IF res \in {"ok", "closeerr"} THEN [r EXCEPT !.ct = "none"] ELSE NoReq

\* Mutant: Save returns the record it was filling in although it failed.
SaveReturnKeepsRecord ==
  /\ pc = "save_done"
  /\ pending' = req
  /\ pc' = "idle"
  /\ req' = NoReq
  /\ pre' = NoPre
  /\ result' = "none"
  /\ NoFault
  /\ UNCHANGED <<fsVars, upTo, todo, round, others>>

\* Save returns; the caller keeps the record of a successful Save.
SaveReturn ==
  /\ pc = "save_done"
  /\ pending' = IF result = "ok" THEN SaveRecord(result, req) ELSE NoReq
  /\ pc' = "idle"
  /\ req' = NoReq
  /\ pre' = NoPre
  /\ result' = "none"
  /\ NoFault
  /\ UNCHANGED <<fsVars, upTo, todo, round, others>>

\* ------------------------------------------------------------------ Commit
\* The caller commits the record Save returned, with a request whose Path
\* is `path`. s.getCustomSSEnv(meta) comes first: an exported request with an
\* empty Path makes it panic before anything is touched.
CommitStart(path) ==
  /\ pc = "idle"
  /\ pending # NoReq
  /\ ~pending.exported => path = ""
  /\ req' = [pending EXCEPT !.path = path]
  /\ IF RootOf(req') = "panic"
     THEN pc' = "commit_done" /\ result' = "panic"
     ELSE pc' = "commit_meta" /\ UNCHANGED result
  /\ pending' = NoReq
  /\ pre' = Snapshot
  /\ NoFault
  /\ UNCHANGED <<fsVars, upTo, todo, round, others>>

\* Commit moves on after a step that ended with `outcome`.
CommitGoto(outcome) ==
  /\ pc' = CommitNext(pc, outcome, req.exported)
  /\ result' = CommitResult(pc, outcome)
  /\ IF outcome = "err" THEN Fault ELSE NoFault

\* env.SaveSSMetadata(&snapshot): the flag file goes into the temp dir, which
\* must exist.
CommitSaveSSMetadata ==
  /\ pc = "commit_meta"
  /\ \/ /\ temp[RootOf(req)][req.index] # Absent
        /\ temp' = SaveSSMetadata(temp, RootOf(req), req.index)
        /\ CommitGoto("ok")
     \/ /\ temp[RootOf(req)][req.index] = Absent
        /\ pc' = CommitNext(pc, "err", req.exported)
        /\ result' = CommitResult(pc, "err")
        /\ NoFault
        /\ UNCHANGED temp
     \/ /\ CommitGoto("err")
        /\ UNCHANGED temp
  /\ UNCHANGED <<finalDir, logdb, pending, req, upTo, todo, pre, round, others>>

\* env.FinalizeSnapshot(&snapshot): OutOfDate when the final dir exists,
\* otherwise the temp dir (flag file included) is renamed to the final dir.
CommitFinalize ==
  /\ pc = "commit_finalize"
  /\ LET root == RootOf(req)
         i == req.index
     IN \/ /\ ~FinalDirExists(finalDir, root, i)
           /\ finalDir' = [finalDir EXCEPT ![root][i] = temp[root][i]]
           /\ temp' = [temp EXCEPT ![root][i] = Absent]
           /\ CommitGoto("ok")
        \/ /\ FinalDirExists(finalDir, root, i)
           /\ CommitGoto("outofdate")
           /\ UNCHANGED <<temp, finalDir>>
        \/ /\ CommitGoto("err")
           /\ UNCHANGED <<temp, finalDir>>
  /\ UNCHANGED <<logdb, pending, req, upTo, todo, pre, round, others>>

\* s.saveToLogDB(snapshot).
CommitSaveToLogDB ==
  /\ pc = "commit_logdb"
  /\ \/ /\ logdb' = SaveSnapshots(logdb, req)
        /\ CommitGoto("ok")
     \/ /\ CommitGoto("err")
        /\ UNCHANGED logdb
  /\ UNCHANGED <<temp, finalDir, pending, req, upTo, todo, pre, round, others>>

\* return env.RemoveFlagFile().
CommitRemoveFlagFile ==
  /\ pc = "commit_rmflag"
  /\ \/ /\ finalDir' = RemoveFlagFile(finalDir, RootOf(req), req.index)
        /\ CommitGoto("ok")
     \/ /\ CommitGoto("err")
        /\ UNCHANGED finalDir
  /\ UNCHANGED <<temp, logdb, pending, req, upTo, todo, pre, round, others>>

\* Commit returns.
CommitReturn ==
  /\ pc = "commit_done"
  /\ pc' = "idle"
  /\ req' = NoReq
  /\ pre' = NoPre
  /\ result' = "none"
  /\ NoFault
  /\ UNCHANGED <<fsVars, pending, upTo, todo, round, others>>

\* ----------------------------------------------------------------- Compact
\* Compact(removeUpTo): list the snapshots, return when there are at most
\* snapshotsToKeep of them, otherwise select the oldest ones.
CompactStart(removeUpTo) ==
  /\ pc = "idle"
  /\ upTo' = removeUpTo
  /\ pre' = Snapshot
  /\ LET snapshots == ListSnapshots(logdb, removeUpTo)
     IN \/ /\ CompactNothingToDo(snapshots)
           /\ pc' = "compact_done"
           /\ result' = "ok"
           /\ NoFault
           /\ UNCHANGED todo
        \/ /\ ~CompactNothingToDo(snapshots)
           /\ pc' = "compact_del"
           /\ todo' = CompactSelected(snapshots)
           /\ NoFault
           /\ UNCHANGED result
        \/ /\ pc' = "compact_done"
           /\ result' = "err"
           /\ Fault
           /\ UNCHANGED todo
  /\ UNCHANGED <<fsVars, pending, req, round, others>>

\* s.logdb.DeleteSnapshot(ss.Index) for the next selected snapshot.
CompactDeleteSnapshot ==
  /\ pc = "compact_del"
  /\ \/ /\ logdb' = DeleteSnapshot(logdb, Head(todo))
        /\ pc' = "compact_rmdir"
        /\ NoFault
        /\ UNCHANGED result
     \/ /\ pc' = "compact_done"
        /\ result' = "err"
        /\ Fault
        /\ UNCHANGED logdb
  /\ UNCHANGED <<temp, finalDir, pending, req, upTo, todo, pre, round, others>>

\* env.RemoveFinalDir() for the snapshot whose record was just deleted.
CompactRemoveFinalDir ==
  /\ pc = "compact_rmdir"
  /\ \/ /\ finalDir' = RemoveFinalDir(finalDir, "node", Head(todo))
        /\ shrunk' = shrunk \ {Head(todo)}
        /\ todo' = Tail(todo)
        /\ pc' = IF Tail(todo) = <<>> THEN "compact_done" ELSE "compact_del"
        /\ result' = IF Tail(todo) = <<>> THEN "ok" ELSE "none"
        /\ NoFault
     \/ /\ pc' = "compact_done"
        /\ result' = "err"
        /\ Fault
        /\ UNCHANGED <<finalDir, todo, shrunk>>
  /\ UNCHANGED <<temp, logdb, pending, req, upTo, pre, round, recv, rest>>

\* Compact returns.
CompactReturn ==
  /\ pc = "compact_done"
  /\ pc' = "idle"
  /\ upTo' = 0
  /\ todo' = <<>>
  /\ pre' = NoPre
  /\ result' = "none"
  /\ NoFault
  /\ UNCHANGED <<fsVars, pending, req, round, others>>

\* ------------------------------------------------------------------ Shrink
\* rsm.ShrinkSnapshot needs the payload file, that is the final directory.
PayloadExists(f, i) == f["node"][i] # Absent

\* rsm.ReplaceSnapshotFile(shrinkedFp, fp): the payload is the shrunk one now.
ReplaceSnapshotFile(sh, i) == sh \cup {i}

\* Mutant: Shrink does not test ss.Dummy.
ShrinkSkipsNothing(db, i) == FALSE

\* Shrink: a dummy snapshot (!ss.Dummy is false) is passed over.
ShrinkSkips(db, i) == db[i] = "dummy"

\* Shrink(shrinkTo): list the snapshots with index <= shrinkTo.
ShrinkStart(shrinkTo) ==
  /\ pc = "idle"
  /\ upTo' = shrinkTo
  /\ pre' = Snapshot
  /\ \/ /\ todo' = ListSnapshots(logdb, shrinkTo)
        /\ pc' = IF todo' = <<>> THEN "shrink_done" ELSE "shrink_loop"
        /\ result' = IF todo' = <<>> THEN "ok" ELSE "none"
        /\ NoFault
     \/ /\ todo' = <<>>
        /\ pc' = "shrink_done"
        /\ result' = "err"
        /\ Fault
  /\ UNCHANGED <<fsVars, pending, req, round, others>>

\* The loop moves on to the next listed snapshot, or ends.
ShrinkAdvance ==
  /\ todo' = Tail(todo)
  /\ pc' = IF Tail(todo) = <<>> THEN "shrink_done" ELSE "shrink_loop"
  /\ result' = IF Tail(todo) = <<>> THEN "ok" ELSE "none"

\* One listed snapshot: the panic on an index above shrinkTo, the test of
\* ss.Dummy, and rsm.ShrinkSnapshot(fp, shrinkedFp), which writes the shrunk
\* copy next to the payload file.
ShrinkSnapshotFile ==
  /\ pc = "shrink_loop"
  /\ LET i == Head(todo)
     IN \/ /\ i > upTo
           /\ pc' = "shrink_done" /\ result' = "panic"
           /\ NoFault
           /\ UNCHANGED todo
        \/ /\ i <= upTo
           /\ ShrinkSkips(logdb, i)
           /\ ShrinkAdvance
           /\ NoFault
        \/ /\ i <= upTo
           /\ ~ShrinkSkips(logdb, i)
           /\ PayloadExists(finalDir, i)
           /\ pc' = "shrink_replace"
           /\ NoFault
           /\ UNCHANGED <<todo, result>>
        \/ /\ i <= upTo
           /\ ~ShrinkSkips(logdb, i)
           /\ ~PayloadExists(finalDir, i)
           /\ pc' = "shrink_done" /\ result' = "err"
           /\ NoFault
           /\ UNCHANGED todo
        \/ /\ i <= upTo
           /\ ~ShrinkSkips(logdb, i)
           /\ pc' = "shrink_done" /\ result' = "err"
           /\ Fault
           /\ UNCHANGED todo
  /\ UNCHANGED <<fsVars, pending, req, upTo, pre, round, others>>

\* rsm.ReplaceSnapshotFile(shrinkedFp, fp).
ShrinkReplace ==
  /\ pc = "shrink_replace"
  /\ \/ /\ shrunk' = ReplaceSnapshotFile(shrunk, Head(todo))
        /\ ShrinkAdvance
        /\ NoFault
     \/ /\ pc' = "shrink_done" /\ result' = "err"
        /\ Fault
        /\ UNCHANGED <<todo, shrunk>>
  /\ UNCHANGED <<fsVars, pending, req, upTo, pre, round, recv, rest>>

\* Shrink returns.
ShrinkReturn ==
  /\ pc = "shrink_done"
  /\ pc' = "idle"
  /\ upTo' = 0
  /\ todo' = <<>>
  /\ pre' = NoPre
  /\ result' = "none"
  /\ NoFault
  /\ UNCHANGED <<fsVars, pending, req, round, others>>

\* ---------------------------------------------------------- ProcessOrphans
\* ioutil.ReadDir(s.dir).
ProcessOrphansReadDir(from, nextRound) ==
  /\ pc = from
  /\ round' = nextRound
  /\ pre' = Snapshot
  /\ \/ /\ todo' = ReadDir(temp, stray, recv, finalDir)
        /\ pc' = IF todo' = <<>> THEN "po_done" ELSE "po_loop"
        /\ result' = IF todo' = <<>> THEN "ok" ELSE "none"
        /\ NoFault
     \/ /\ pc' = "po_done"
        /\ result' = "err"
        /\ todo' = <<>>
        /\ Fault
  /\ UNCHANGED <<fsVars, pending, req, upTo, others>>

\* ProcessOrphans is called.
ProcessOrphansStart == ProcessOrphansReadDir("idle", 1)

\* ProcessOrphans is called again as soon as a successful call returned.
ProcessOrphansAgain ==
  /\ result = "ok"
  /\ round = 1
  /\ ProcessOrphansReadDir("po_done", 2)

\* Mutant: the loop returns nil after the first entry instead of going on.
ProcessOrphansAdvanceReturnsEarly ==
  /\ todo' = <<>>
  /\ pc' = "po_done"
  /\ result' = "ok"
  /\ NoFault

\* The loop moves on to the next entry, or ends.
ProcessOrphansAdvance ==
  /\ todo' = Tail(todo)
  /\ pc' = IF Tail(todo) = <<>> THEN "po_done" ELSE "po_loop"
  /\ result' = IF Tail(todo) = <<>> THEN "ok" ELSE "none"
  /\ NoFault

\* An I/O or log database error ends ProcessOrphans.
ProcessOrphansFail ==
  /\ pc' = "po_done"
  /\ result' = "err"
  /\ Fault
  /\ UNCHANGED todo

\* One iteration of the loop over the directory's entries: a plain file is
\* skipped, an orphan whose flag file holds an empty snapshot makes
\* ProcessOrphans panic, any other orphan is deleted or loses its flag file,
\* a zombie is removed, any other directory is left alone.
ProcessOrphansStep ==
  /\ pc = "po_loop"
  /\ LET e == Head(todo)
         ssIndex == finalDir["node"][e.index]
     IN \/ /\ e.kind = "file"
           /\ ProcessOrphansAdvance
           /\ UNCHANGED <<temp, finalDir, recv, shrunk>>
        \/ /\ e.kind # "file"
           /\ isOrphanDir(finalDir, e)
           /\ IsEmptySnapshot(ssIndex)
           /\ pc' = "po_done"
           /\ result' = "panic"
           /\ NoFault
           /\ UNCHANGED <<todo, temp, finalDir, recv, shrunk>>
        \/ /\ e.kind # "file"
           /\ isOrphanDir(finalDir, e)
           /\ ~IsEmptySnapshot(ssIndex)
           /\ OrphanDeleteDir(logdb, ssIndex)
           /\ finalDir' = RemoveFinalDir(finalDir, "node", ssIndex)
           /\ shrunk' = shrunk \ {ssIndex}
           /\ ProcessOrphansAdvance
           /\ UNCHANGED <<temp, recv>>
        \/ /\ e.kind # "file"
           /\ isOrphanDir(finalDir, e)
           /\ ~IsEmptySnapshot(ssIndex)
           /\ ~OrphanDeleteDir(logdb, ssIndex)
           /\ finalDir' = RemoveFlagFile(finalDir, "node", ssIndex)
           /\ ProcessOrphansAdvance
           /\ UNCHANGED <<temp, recv, shrunk>>
        \/ /\ e.kind # "file"
           /\ isOrphanDir(finalDir, e)
           /\ ProcessOrphansFail
           /\ UNCHANGED <<temp, finalDir, recv, shrunk>>
        \/ /\ e.kind # "file"
           /\ ~isOrphanDir(finalDir, e)
           /\ isZombieDir(e)
           /\ temp' = RemoveAllTemp(temp, e)
           /\ recv' = RemoveAllRecv(recv, e)
           /\ ProcessOrphansAdvance
           /\ UNCHANGED <<finalDir, shrunk>>
        \/ /\ e.kind # "file"
           /\ ~isOrphanDir(finalDir, e)
           /\ isZombieDir(e)
           /\ \/ temp' = temp /\ recv' = recv
              \/ temp' = RemoveAllTemp(temp, e) /\ recv' = RemoveAllRecv(recv, e)
           /\ ProcessOrphansFail
           /\ UNCHANGED <<finalDir, shrunk>>
        \/ /\ e.kind # "file"
           /\ ~isOrphanDir(finalDir, e)
           /\ ~isZombieDir(e)
           /\ ProcessOrphansAdvance
           /\ UNCHANGED <<temp, finalDir, recv, shrunk>>
  /\ UNCHANGED <<logdb, pending, req, upTo, pre, round, rest>>

\* ProcessOrphans returns.
ProcessOrphansReturn ==
  /\ pc = "po_done"
  /\ pc' = "idle"
  /\ todo' = <<>>
  /\ pre' = NoPre
  /\ result' = "none"
  /\ round' = 1
  /\ NoFault
  /\ UNCHANGED <<fsVars, pending, req, upTo, others>>

\* ------------------------------------------------------------------- crash
\* The process dies inside an operation: the filesystem and the log database
\* stay as they are, everything in memory is lost.
Crash ==
  /\ pc \notin {"idle", "save_done", "commit_done", "compact_done", "po_done",
               "shrink_done", "load_done"}
  /\ pc' = "idle"
  /\ pending' = NoReq
  /\ req' = NoReq
  /\ upTo' = 0
  /\ todo' = <<>>
  /\ pre' = NoPre
  /\ result' = "none"
  /\ round' = 1
  /\ Fault
  /\ UNCHANGED <<fsVars, others>>

\* ------------------------------------------------------------------ Stream
\* A sink nothing has been sent to.
NewSink == [stopped |-> FALSE, chunks |-> 0, last |-> FALSE]

\* ChunkWriter.Write reaching a chunk boundary: one more chunk goes to the sink.
ChunkWriterEmit(s) == [s EXCEPT !.chunks = s.chunks + 1]

\* ChunkWriter.Close succeeding: the tail chunk carries the last-chunk flag.
ChunkWriterClose(s) == [s EXCEPT !.last = TRUE]

\* sink.Stop().
SinkStop(s) == [s EXCEPT !.stopped = TRUE]

\* Mutant: Stream acquires an environment and creates a temp dir, as Save does.
StreamStartCreatesTempDir(ct) ==
  /\ spc = "idle"
  /\ sink' = NewSink
  /\ IF compressionType(ct) = "panic"
     THEN spc' = "stream_done" /\ sresult' = "panic"
     ELSE spc' = "stream_sm" /\ sresult' = "none"
  /\ temp' = CreateTempDir(temp, "node", 1)
  /\ UNCHANGED <<finalDir, logdb, pending, pc, req, upTo, todo, pre, result,
                 round, onDisk, faults, recv, stray, shrunk, file>>

\* Stream is called on the streaming worker with a sink of its own and a meta
\* whose compression type is ct. compressionType(meta.CompressionType) comes
\* first: an unknown type makes it panic before StreamSnapshot is called, the
\* sink neither written to nor stopped.
StreamStart(ct) ==
  /\ spc = "idle"
  /\ sink' = NewSink
  /\ IF compressionType(ct) = "panic"
     THEN spc' = "stream_done" /\ sresult' = "panic"
     ELSE spc' = "stream_sm" /\ sresult' = "none"
  /\ UNCHANGED <<fsVars, pending, pc, req, upTo, todo, pre, result, round,
                 onDisk, faults, recv, stray, shrunk, file>>

\* streamable.StreamSnapshot writes into the compressor over the chunk writer.
StreamWrite ==
  /\ spc = "stream_sm"
  /\ sink.chunks < MaxChunks
  /\ sink' = ChunkWriterEmit(sink)
  /\ UNCHANGED <<fsVars, pending, pc, req, upTo, todo, pre, result, round,
                 onDisk, faults, spc, sresult, recv, stray, shrunk, file>>

\* streamable.StreamSnapshot returns: on an error Stream stops the sink and
\* returns the error, otherwise it goes on to close the writer.
StreamSnapshotReturn ==
  /\ spc = "stream_sm"
  /\ \/ /\ spc' = "stream_close"
        /\ UNCHANGED <<sink, sresult>>
     \/ /\ sink' = SinkStop(sink)
        /\ sresult' = "err"
        /\ spc' = "stream_done"
  /\ UNCHANGED <<fsVars, pending, pc, req, upTo, todo, pre, result, round,
                 onDisk, faults, recv, stray, shrunk, file>>

\* return cw.Close().
StreamClose ==
  /\ spc = "stream_close"
  /\ \/ /\ sink' = ChunkWriterClose(sink)
        /\ sresult' = "ok"
     \/ /\ sresult' = "err"
        /\ UNCHANGED sink
  /\ spc' = "stream_done"
  /\ UNCHANGED <<fsVars, pending, pc, req, upTo, todo, pre, result, round,
                 onDisk, faults, recv, stray, shrunk, file>>

\* Stream has returned; the worker is free again.
StreamReturn ==
  /\ spc = "stream_done"
  /\ spc' = "idle"
  /\ sink' = NewSink
  /\ sresult' = "none"
  /\ UNCHANGED <<fsVars, pending, pc, req, upTo, todo, pre, result, round,
                 onDisk, faults, recv, stray, shrunk, file>>

\* -------------------------------------------------------------------- Load
\* The snapshot files Load may be given: the header checksum is right or
\* wrong, the payload checksum is right or wrong, the header names a
\* compression type.
Files == [header : BOOLEAN, payload : BOOLEAN,
          compression : CompressionTypes]

\* reader.GetHeader: reads the header and validates its checksum.
GetHeader(f) == f.header

\* reader.ValidatePayload: whether the payload checksum validates.
ValidatePayload(f) == f.payload

\* Load is called for the snapshot file f.
LoadStart(f) ==
  /\ pc = "idle"
  /\ pc' = "load_open"
  /\ file' = f
  /\ UNCHANGED <<fsVars, pending, req, upTo, todo, pre, result, round, faults,
                 onDisk, streamVars, recv, stray, shrunk>>

\* What every step of Load leaves alone.
loadFrame == <<fsVars, pending, req, upTo, todo, pre, round, faults, onDisk,
               streamVars, recv, stray, shrunk, file>>

\* rsm.NewSnapshotReader(fp): an error is returned as it is.
LoadOpen ==
  /\ pc = "load_open"
  /\ \/ pc' = "load_header" /\ UNCHANGED result
     \/ pc' = "load_done" /\ result' = "err"
  /\ UNCHANGED loadFrame

\* reader.GetHeader(): on an error the reader is closed and the error returned.
LoadGetHeader ==
  /\ pc = "load_header"
  /\ \/ GetHeader(file) /\ pc' = "load_decompressor" /\ UNCHANGED result
     \/ pc' = "load_done" /\ result' = "err"
  /\ UNCHANGED loadFrame

\* compressionType(header.CompressionType) and dio.NewDecompressor.
LoadDecompressor ==
  /\ pc = "load_decompressor"
  /\ IF compressionType(file.compression) = "ok"
     THEN pc' = "load_sessions" /\ UNCHANGED result
     ELSE pc' = "load_done" /\ result' = "panic"
  /\ UNCHANGED loadFrame

\* sessions.LoadSessions(cr, v): an error is returned (after the deferred Close).
LoadSessions ==
  /\ pc = "load_sessions"
  /\ \/ pc' = "load_recover" /\ UNCHANGED result
     \/ pc' = "load_close" /\ result' = "err"
  /\ UNCHANGED loadFrame

\* asm.RecoverFromSnapshot(cr, fs): an error is returned (after the deferred
\* Close).
LoadRecover ==
  /\ pc = "load_recover"
  /\ \/ pc' = "load_validate" /\ UNCHANGED result
     \/ pc' = "load_close" /\ result' = "err"
  /\ UNCHANGED loadFrame

\* Mutant: validate_payload lets a payload pass whose checksum does not match.
LoadValidateResultIgnoresMismatch(valid) == {"returns"}

\* The ways reader.ValidatePayload(header) can end. The call is a statement
\* of its own with no result, and the next statement is `return nil`: a
\* payload that validates lets the call return; a validate_payload that fails
\* on a checksum mismatch can do so only by not returning (a panic) or by
\* leaving the error to the reader's Close.
LoadValidateResult(valid) ==
  IF valid THEN {"returns"} ELSE {"panic", "close"}

\* reader.ValidatePayload(header); return nil.
LoadValidate ==
  /\ pc = "load_validate"
  /\ \E o \in LoadValidateResult(ValidatePayload(file)) :
       \/ /\ o = "returns"
          /\ pc' = "load_close"
          /\ result' = "ok"
       \/ /\ o = "close"
          /\ pc' = "load_close_mismatch"
          /\ result' = "ok"
       \/ /\ o = "panic"
          /\ pc' = "load_done"
          /\ result' = "panic"
  /\ UNCHANGED loadFrame

\* The deferred cr.Close(): its error is returned when there is no other. A
\* reader that left the checksum mismatch to Close reports it here.
LoadClose ==
  /\ pc \in {"load_close", "load_close_mismatch"}
  /\ \/ /\ pc = "load_close"
        /\ UNCHANGED result
     \/ result' = IF result = "ok" THEN "err" ELSE result
  /\ pc' = "load_done"
  /\ UNCHANGED loadFrame

\* Load returns.
LoadReturn ==
  /\ pc = "load_done"
  /\ pc' = "idle"
  /\ result' = "none"
  /\ file' = NoFile
  /\ UNCHANGED <<fsVars, pending, req, upTo, todo, pre, round, faults,
                 onDisk, streamVars, recv, stray, shrunk>>

\* ----------------------------------------------------------- specification
Next ==
  \/ \E i \in SaveIndex, exported \in BOOLEAN, path \in Paths,
        ct \in CompressionTypes : SaveStart(i, exported, path, ct)
  \/ SaveCreateTempDir
  \/ SaveWrite
  \/ SaveReturn
  \/ \E path \in Paths : CommitStart(path)
  \/ CommitSaveSSMetadata
  \/ CommitFinalize
  \/ CommitSaveToLogDB
  \/ CommitRemoveFlagFile
  \/ CommitReturn
  \/ \E x \in Index : CompactStart(x)
  \/ CompactDeleteSnapshot
  \/ CompactRemoveFinalDir
  \/ CompactReturn
  \/ ProcessOrphansStart
  \/ ProcessOrphansAgain
  \/ ProcessOrphansStep
  \/ ProcessOrphansReturn
  \/ Crash

Spec == Init /\ [][Next]_vars

\* The owner's calls when the process never dies: every call returns, with
\* an error or without.
NextNoCrash ==
  \/ \E i \in SaveIndex, exported \in BOOLEAN, path \in Paths,
        ct \in CompressionTypes : SaveStart(i, exported, path, ct)
  \/ SaveCreateTempDir
  \/ SaveWrite
  \/ SaveReturn
  \/ \E path \in Paths : CommitStart(path)
  \/ CommitSaveSSMetadata
  \/ CommitFinalize
  \/ CommitSaveToLogDB
  \/ CommitRemoveFlagFile
  \/ CommitReturn
  \/ \E x \in Index : CompactStart(x)
  \/ CompactDeleteSnapshot
  \/ CompactRemoveFinalDir
  \/ CompactReturn
  \/ ProcessOrphansStart
  \/ ProcessOrphansAgain
  \/ ProcessOrphansStep
  \/ ProcessOrphansReturn

SpecNoCrash == Init /\ [][NextNoCrash]_vars

\* Stream on its worker, concurrently with Save and Commit on the owner.
NextStream ==
  \/ \E ct \in CompressionTypes : StreamStart(ct)
  \/ StreamWrite
  \/ StreamSnapshotReturn
  \/ StreamClose
  \/ StreamReturn
  \/ \E i \in SaveIndex, exported \in BOOLEAN, path \in Paths,
        ct \in CompressionTypes : SaveStart(i, exported, path, ct)
  \/ SaveCreateTempDir
  \/ SaveWrite
  \/ SaveReturn
  \/ \E path \in Paths : CommitStart(path)
  \/ CommitSaveSSMetadata
  \/ CommitFinalize
  \/ CommitSaveToLogDB
  \/ CommitRemoveFlagFile
  \/ CommitReturn

SpecStream == Init /\ [][NextStream]_vars

\* ProcessOrphans at startup, on whatever a snapshot directory and a log
\* database can hold then: final directories with and without flag file,
\* with and without a record, left-over generating-* and receiving-*
\* directories, a plain file, a directory with another name.
InitOrphans ==
  /\ temp \in {[EmptyDirs EXCEPT !["node"] = g] : g \in [Index -> {Absent, NoFlag}]}
  /\ recv \in [Index -> {Absent, NoFlag}]
  /\ \A i \in Index \ SaveIndex : temp["node"][i] = Absent /\ recv[i] = Absent
  /\ Cardinality({i \in Index : temp["node"][i] # Absent})
       + Cardinality({i \in Index : recv[i] # Absent}) <= MaxZombies
  /\ finalDir \in {[EmptyDirs EXCEPT !["node"] = g] :
                    g \in {h \in [Index -> DirState] :
                             \A i \in Index : h[i] \in {Absent, NoFlag, i, EmptyFlag}}}
  /\ \A i \in Index \ SaveIndex : finalDir["node"][i] = Absent
  /\ Cardinality({i \in Index : finalDir["node"][i] = EmptyFlag}) <= MaxEmptyFlags
  /\ logdb \in [Index -> {"none", "real"}]
  /\ \A i \in Index \ SaveIndex : logdb[i] = "none"
  /\ stray \in {{}, {"file", "dir"}}
  /\ pending = NoReq
  /\ pc = "idle"
  /\ req = NoReq
  /\ upTo = 0
  /\ todo = <<>>
  /\ pre = NoPre
  /\ result = "none"
  /\ round = 1
  /\ onDisk = FALSE
  /\ faults = 0
  /\ spc = "idle"
  /\ sink = NewSink
  /\ sresult = "none"
  /\ shrunk = {}
  /\ file = NoFile

\* ProcessOrphans is called once during startup (and once more after a
\* successful run, for its second run to be looked at).
NextOrphans ==
  \/ ProcessOrphansStart
  \/ ProcessOrphansAgain
  \/ ProcessOrphansStep

SpecOrphans == InitOrphans /\ [][NextOrphans]_vars

\* Compact on any snapshot list, each final directory present (with or
\* without its flag file) or missing, with and without a record.
InitCompact ==
  /\ logdb \in [Index -> {"none", "real"}]
  /\ finalDir \in {[EmptyDirs EXCEPT !["node"] = g] :
                    g \in {h \in [Index -> DirState] :
                             \A i \in Index : h[i] \in {Absent, NoFlag, i}}}
  /\ temp = EmptyDirs
  /\ pending = NoReq
  /\ pc = "idle"
  /\ req = NoReq
  /\ upTo = 0
  /\ todo = <<>>
  /\ pre = NoPre
  /\ result = "none"
  /\ round = 1
  /\ onDisk = FALSE
  /\ faults = 0
  /\ spc = "idle"
  /\ sink = NewSink
  /\ sresult = "none"
  /\ recv = NoRecv
  /\ stray = {}
  /\ shrunk = {}
  /\ file = NoFile

NextCompact ==
  \/ \E x \in Index : CompactStart(x)
  \/ CompactDeleteSnapshot
  \/ CompactRemoveFinalDir
  \/ CompactReturn
  \/ Crash

SpecCompact == InitCompact /\ [][NextCompact]_vars

\* Shrink on any snapshot list of regular and dummy records (a replica also
\* records the snapshots it receives), each record with its final directory
\* or, after an interrupted cleanup, without it, the payload of a regular
\* snapshot full or already shrunk.
InitShrink ==
  /\ logdb \in [Index -> {"none", "real", "dummy"}]
  /\ \A i \in Index \ SaveIndex : logdb[i] = "none"
  /\ finalDir \in {[EmptyDirs EXCEPT !["node"] = g] :
                    g \in [Index -> {Absent, NoFlag}]}
  /\ \A i \in Index : logdb[i] = "none" => finalDir["node"][i] = Absent
  /\ shrunk \in SUBSET Index
  /\ \A i \in shrunk : logdb[i] = "real" /\ finalDir["node"][i] = NoFlag
  /\ temp = EmptyDirs
  /\ pending = NoReq
  /\ pc = "idle"
  /\ req = NoReq
  /\ upTo = 0
  /\ todo = <<>>
  /\ pre = NoPre
  /\ result = "none"
  /\ round = 1
  /\ onDisk = TRUE
  /\ faults = 0
  /\ spc = "idle"
  /\ sink = NewSink
  /\ sresult = "none"
  /\ recv = NoRecv
  /\ stray = {}
  /\ file = NoFile

NextShrink ==
  \/ \E x \in Index : ShrinkStart(x)
  \/ ShrinkSnapshotFile
  \/ ShrinkReplace
  \/ ShrinkReturn

SpecShrink == InitShrink /\ [][NextShrink]_vars

\* Load, called at recovery for any snapshot file.
NextLoad ==
  \/ \E f \in Files : LoadStart(f)
  \/ LoadOpen
  \/ LoadGetHeader
  \/ LoadDecompressor
  \/ LoadSessions
  \/ LoadRecover
  \/ LoadValidate
  \/ LoadClose
  \/ LoadReturn

SpecLoad == Init /\ [][NextLoad]_vars

\* ================================================================== claims
\* The indices whose final directory under the replica's root is complete:
\* present, flag file absent.
CompleteDirs(f) == {i \in Index : f["node"][i] = NoFlag}
\* The indices whose final directory exists under the replica's root.
FinalDirs(f) == {i \in Index : f["node"][i] # Absent}
\* The indices the log database lists, and those of non-dummy records.
Records(db) == {i \in Index : db[i] # "none"}
NonDummy(db) == {i \in Index : db[i] = "real"}
\* The greatest element of a non-empty set of indices.
MaxOf(S) == CHOOSE m \in S : \A k \in S : k <= m
MinOf(a, b) == IF a <= b THEN a ELSE b
CommitPcs == {"commit_meta", "commit_finalize", "commit_logdb", "commit_rmflag"}

\* C1: once ProcessOrphans has completed successfully, the indices with a
\* complete final directory are exactly the non-dummy indices of the log
\* database.
C1_OrphansReconcile ==
  (pc = "po_done" /\ result = "ok") =>
    CompleteDirs(finalDir) = NonDummy(logdb)

\* C2: Commit of a non-exported snapshot runs flag file, rename, log database
\* write, flag removal in this order; it removes a flag file only from a
\* directory whose index the log database already records, and the step that
\* removes the flag does not touch the log database.
C2_StepOrder ==
  (pc \in CommitPcs /\ ~req.exported) =>
    /\ pc = "commit_finalize" =>
         temp["node"][req.index] = req.index /\ logdb = pre.logdb
    /\ pc = "commit_logdb" =>
         finalDir["node"][req.index] = req.index /\ logdb = pre.logdb
    /\ pc = "commit_rmflag" =>
         /\ finalDir["node"][req.index] = req.index
         /\ logdb[req.index] = (IF req.dummy THEN "dummy" ELSE "real")

C2_FlagRemoval ==
  \A i \in Index :
    ( /\ pc \in CommitPcs \cup {"save_mktemp", "save_write"}
      /\ HasFlagFile(finalDir, "node", i)
      /\ ~HasFlagFile(finalDir', "node", i) ) =>
        /\ pc = "commit_rmflag" /\ req.index = i
        /\ logdb[i] # "none"
        /\ logdb' = logdb
        /\ finalDir'["node"][i] = NoFlag

C2_FlagOutlivesLogDBWrite == [](C2_StepOrder) /\ [][C2_FlagRemoval]_vars

C2_Witness ==
  /\ pc = "commit_done" /\ result = "ok" /\ ~req.exported
  /\ pre.finalDir["node"][req.index] = Absent
  /\ finalDir["node"][req.index] = NoFlag
  /\ logdb[req.index] # "none"

\* C3: a commit succeeds only when no final directory with an index
\* greater than or equal to its own exists, so every record it adds has an
\* index above all the records already there.
C3_CommitMonotonic ==
  (pc = "commit_done" /\ result = "ok" /\ ~req.exported) =>
    /\ \A j \in FinalDirs(pre.finalDir) : j < req.index
    /\ \A j \in Records(pre.logdb) : j < req.index

\* C4: a Compact(x) that returns nil leaves, of the n snapshots with index
\* <= x listed before the call, exactly the min(snapshotsToKeep, n) highest;
\* their records and directories are untouched, as is everything above x;
\* with n <= snapshotsToKeep nothing changes at all.
C4_CompactRetention ==
  (pc = "compact_done" /\ result = "ok") =>
    LET before == ListSnapshots(pre.logdb, upTo)
        n == Len(before)
        keep == MinOf(snapshotsToKeep, n)
        kept == {before[k] : k \in (n - keep + 1)..n}
    IN /\ {i \in Records(logdb) : i <= upTo} = kept
       /\ Cardinality(kept) = keep
       /\ \A i \in kept :
            /\ logdb[i] = pre.logdb[i]
            /\ finalDir["node"][i] = pre.finalDir["node"][i]
       /\ \A i \in Index : i > upTo =>
            /\ logdb[i] = pre.logdb[i]
            /\ finalDir["node"][i] = pre.finalDir["node"][i]
       /\ n <= snapshotsToKeep =>
            logdb = pre.logdb /\ finalDir = pre.finalDir /\ temp = pre.temp

C4_Witness ==
  /\ pc = "compact_done" /\ result = "ok"
  /\ Len(ListSnapshots(pre.logdb, upTo)) > snapshotsToKeep
  /\ \E i \in Index : pre.finalDir["node"][i] = NoFlag /\ finalDir["node"][i] = Absent

\* C5: an orphan ProcessOrphans handles is deleted exactly when the log
\* database lists no snapshot or the index in its flag file differs from the
\* most recent listed index; otherwise only its flag file goes.
C5_OrphanStep ==
  ( /\ pc = "po_loop"
    /\ isOrphanDir(finalDir, Head(todo))
    /\ pc' \in {"po_loop", "po_done"}
    /\ result' \notin {"err", "panic"} ) =>
      LET i == Head(todo).index
          flagIndex == finalDir["node"][i]
          delete == \/ Records(logdb) = {}
                    \/ flagIndex # MaxOf(Records(logdb))
      IN /\ (finalDir'["node"][i] = Absent) <=> delete
         /\ ~delete => finalDir'["node"][i] = NoFlag
         /\ \A r \in Roots, j \in Index :
              <<r, j>> # <<"node", i>> => finalDir'[r][j] = finalDir[r][j]
         /\ logdb' = logdb
         /\ temp' = temp

C5_OrphanDecision == [][C5_OrphanStep]_vars

C5_Witness ==
  /\ pc = "po_done" /\ result = "ok"
  /\ \E i, j \in Index :
       /\ pre.finalDir["node"][i] >= 1 /\ finalDir["node"][i] = NoFlag
       /\ pre.finalDir["node"][j] >= 1 /\ finalDir["node"][j] = Absent

\* C6: a final directory whose record Compact deleted before a crash is gone
\* once the next ProcessOrphans has completed: no final directory is left
\* whose index the log database does not list.
C6_LeftoverCollected ==
  (pc = "po_done" /\ result = "ok") =>
    \A i \in FinalDirs(finalDir) : logdb[i] # "none"

\* C7: a ProcessOrphans that runs right after a successful ProcessOrphans
\* changes neither the directories nor the flag files nor the log database.
C7_ProcessOrphansIdempotent ==
  round = 2 =>
    finalDir = pre.finalDir /\ temp = pre.temp /\ logdb = pre.logdb

C7_Witness ==
  /\ round = 2 /\ pc = "po_done" /\ result = "ok"
  /\ FinalDirs(finalDir) # {}

\* Every non-dummy record has a complete final directory.
Agree(db, f) == NonDummy(db) \subseteq CompleteDirs(f)

\* C8: whenever no operation is in progress, every non-dummy
\* record of the log database has a complete final directory.
C8_AgreeWhenIdle == pc = "idle" => Agree(logdb, finalDir)

\* C9: when Stream returns an error, sink.Stop() has been called.
C9_StopOnError ==
  (spc = "stream_done" /\ sresult = "err") => sink.stopped

\* C10: a successful Commit writes the snapshot's record to the log database
\* exactly when the request is not an exported snapshot: GetSnapshot then
\* returns the record of a non-exported commit, and an exported commit leaves
\* the snapshot list as it was.
C10_RecordedUnlessExported ==
  (pc = "commit_done" /\ result = "ok") =>
    IF req.exported
    THEN logdb = pre.logdb
    ELSE /\ GetSnapshot(logdb, req.index, "ok") = [index |-> req.index, err |-> "nil"]
         /\ logdb[req.index] = (IF req.dummy THEN "dummy" ELSE "real")
         /\ \A j \in Index : j # req.index => logdb[j] = pre.logdb[j]

C10_Witness ==
  /\ pc = "commit_done" /\ result = "ok" /\ req.exported
  /\ finalDir["export"][req.index] = NoFlag
  /\ Records(logdb) # {}

\* C11: when Commit returns OutOfDate the log database is as it was, no final
\* directory was created, modified or removed, the attempt's temp directory is
\* still there, and the filesystem differs from the one before the call at
\* most inside that temp directory (the flag file Commit wrote into it).
C11_OutOfDateLeavesTemp ==
  (pc = "commit_done" /\ result = "outofdate") =>
    /\ logdb = pre.logdb
    /\ finalDir = pre.finalDir
    /\ temp[RootOf(req)][req.index] = req.index
    /\ pre.temp[RootOf(req)][req.index] # Absent
    /\ \A r \in Roots, j \in Index :
         <<r, j>> # <<RootOf(req), req.index>> => temp[r][j] = pre.temp[r][j]
    /\ recv = pre.recv /\ shrunk = pre.shrunk

C11_Witness ==
  /\ pc = "commit_done" /\ result = "outofdate"
  /\ pre.temp[RootOf(req)][req.index] = NoFlag
  /\ temp[RootOf(req)][req.index] = req.index
  /\ finalDir[RootOf(req)][req.index] # Absent
  /\ \E j \in Index : j > req.index /\ logdb[j] # "none"

\* C12: Load never returns nil for a snapshot file whose payload checksum
\* does not validate.
C12_LoadRejectsMismatch ==
  (pc = "load_done" /\ ~ValidatePayload(file)) => result # "ok"

C12_Witness ==
  /\ pc = "load_done" /\ result = "panic"
  /\ GetHeader(file) /\ compressionType(file.compression) = "ok"
  /\ ~ValidatePayload(file)

\* C13: no step of Stream, whether Stream succeeds or fails and wherever the
\* step falls between the steps of a concurrent Save and Commit, creates a
\* temp directory, a final directory or a flag file or writes a log database
\* record, and none changes what Save and Commit go on to do; no step of Save
\* or Commit touches the sink, so Save and Commit reach the state they reach
\* without Stream.
C13_StreamStep ==
  (spc' # spc \/ sink' # sink \/ sresult' # sresult) =>
    UNCHANGED <<temp, finalDir, logdb, recv, stray, shrunk, pending, pc, req,
                upTo, todo, pre, result, round, faults, onDisk, file>>

C13_OwnerStep ==
  (pc' # pc \/ fsVars' # fsVars) => UNCHANGED streamVars

C13_StreamTouchesNothing == [][C13_StreamStep /\ C13_OwnerStep]_vars

C13_Witness ==
  /\ spc = "stream_close" /\ sink.chunks >= 1
  /\ pc = "commit_rmflag" /\ ~req.exported
  /\ finalDir["node"][req.index] = req.index
  /\ logdb[req.index] # "none"

\* C15: a Save that fails (or panics) has created no final directory and
\* written no log database record, what it wrote is in its temp directory, and
\* it returns no snapshot record; a final directory comes into existence only
\* through the rename in Commit, out of a temp directory that holds the flag
\* file.
C15_FailedSave ==
  /\ (pc = "save_done" /\ result \in {"err", "closeerr"}) =>
       /\ finalDir = pre.finalDir
       /\ logdb = pre.logdb
       /\ \A r \in Roots, j \in Index :
            <<r, j>> # <<RootOf(req), req.index>> => temp[r][j] = pre.temp[r][j]
       /\ pre.temp[RootOf(req)][req.index] # Absent =>
            temp[RootOf(req)][req.index] = pre.temp[RootOf(req)][req.index]
  /\ (pc = "save_done" /\ result = "panic") =>
       /\ finalDir = pre.finalDir
       /\ logdb = pre.logdb
       /\ RootOf(req) = "panic" => temp = pre.temp
       /\ RootOf(req) # "panic" =>
            \A r \in Roots, j \in Index :
              <<r, j>> # <<RootOf(req), req.index>> => temp[r][j] = pre.temp[r][j]

C15_NoRecord ==
  (pc = "save_done" /\ result = "err") =>
    SaveRecord(result, req) = NoReq /\ pending' = NoReq

C15_FinalOnlyByRename ==
  \A r \in Roots, i \in Index :
    (finalDir[r][i] = Absent /\ finalDir'[r][i] # Absent) =>
      /\ pc = "commit_finalize" /\ RootOf(req) = r /\ req.index = i
      /\ temp[r][i] = i
      /\ finalDir'[r][i] = temp[r][i]
      /\ temp'[r][i] = Absent

C15_FailedSaveLeavesTemp ==
  [](C15_FailedSave) /\ [][C15_NoRecord /\ C15_FinalOnlyByRename]_vars

C15_Witness ==
  /\ pc = "save_done" /\ result = "err"
  /\ pre.temp[RootOf(req)][req.index] = Absent
  /\ temp[RootOf(req)][req.index] = NoFlag
  /\ finalDir[RootOf(req)][req.index] = Absent

\* C16: once ProcessOrphans has completed successfully no generating-* and no
\* receiving-* directory is left under the replica's root, while every final
\* directory that had no flag file, the directory with another name, the
\* plain file, everything under an exported snapshot's path and the log
\* database are as they were.
C16_ZombiesGoneRestKept ==
  (pc = "po_done" /\ result = "ok") =>
    /\ \A i \in Index : temp["node"][i] = Absent /\ recv[i] = Absent
    /\ \A i \in Index :
         pre.finalDir["node"][i] = NoFlag => finalDir["node"][i] = NoFlag
    /\ stray = pre.stray
    /\ shrunk \cap CompleteDirs(pre.finalDir) = pre.shrunk \cap CompleteDirs(pre.finalDir)
    /\ temp["export"] = pre.temp["export"]
    /\ finalDir["export"] = pre.finalDir["export"]
    /\ logdb = pre.logdb

C16_Witness ==
  /\ pc = "po_done" /\ result = "ok"
  /\ \E i, j, k \in Index :
       /\ pre.temp["node"][i] # Absent
       /\ pre.recv[j] # Absent
       /\ pre.finalDir["node"][k] = NoFlag /\ pre.logdb[k] = "none"
  /\ pre.stray = {"file", "dir"}
  /\ \A i \in Index : temp["node"][i] = Absent /\ recv[i] = Absent

\* C17: Save and Commit of a snapshot the state machine reports as dummy
\* create no temp directory, no final directory and no flag file; the
\* snapshot is recorded only in the log database.
C17_DummySkipsFilesystem ==
  (pc \in {"save_done", "commit_done"} /\ result = "ok" /\ req.dummy) =>
    /\ temp = pre.temp
    /\ finalDir = pre.finalDir
    /\ pc = "commit_done" => logdb[req.index] = "dummy"

\* C18: Shrink(shrinkTo) replaces the payload of the non-dummy snapshots with
\* index <= shrinkTo, in ascending order, and of no other: at every point the
\* payloads replaced so far belong to the lowest of them, a Shrink that returns
\* nil has replaced them all, one that returns an error at a snapshot has
\* replaced exactly those before it; the dummy snapshots, the snapshots above
\* shrinkTo, the directories and the log database stay as they were.
C18_ShrinkFrame ==
  pc \in {"shrink_loop", "shrink_replace", "shrink_done"} =>
    LET targets == {i \in NonDummy(pre.logdb) : i <= upTo}
        replaced == shrunk \ pre.shrunk
    IN /\ logdb = pre.logdb
       /\ finalDir = pre.finalDir
       /\ temp = pre.temp
       /\ pre.shrunk \subseteq shrunk
       /\ replaced \subseteq targets
       /\ \A i, j \in targets : (i < j /\ j \in replaced) => i \in shrunk
       /\ (pc = "shrink_done" /\ result = "ok") => shrunk = pre.shrunk \cup targets
       /\ (pc = "shrink_done" /\ result = "err") =>
            \E k \in 0..MaxIndex :
              /\ k = 0 \/ k \in targets
              /\ shrunk \cap {i \in Index : i >= k} = pre.shrunk \cap {i \in Index : i >= k}
              /\ k # 0 => \A i \in targets : i < k => i \in shrunk
       /\ result # "panic"

C18_Witness ==
  /\ pc = "shrink_done" /\ result = "ok"
  /\ \E i, j, k \in Index :
       /\ i < j /\ j <= upTo /\ upTo < k
       /\ pre.logdb[i] = "dummy" /\ i \notin shrunk
       /\ pre.logdb[j] = "real" /\ j \notin pre.shrunk /\ j \in shrunk
       /\ pre.logdb[k] = "real" /\ k \notin shrunk

\* C19: at no point of a Compact or a ProcessOrphans, whether it completes,
\* fails or is cut short by a crash, is the record of the snapshot that was
\* the most recent one in the log database when the call began deleted or
\* changed, or its final directory removed.
C19_MostRecentKept ==
  pc \in {"compact_del", "compact_rmdir", "compact_done", "po_loop", "po_done"} =>
    LET mrss == GetMostRecentSnapshot(pre.logdb)
    IN mrss # 0 =>
         /\ logdb[mrss] = pre.logdb[mrss]
         /\ GetMostRecentSnapshot(logdb) = mrss
         /\ pre.finalDir["node"][mrss] # Absent => finalDir["node"][mrss] # Absent

C19_Witness ==
  /\ pc = "po_done" /\ result = "ok"
  /\ LET mrss == GetMostRecentSnapshot(pre.logdb)
     IN /\ mrss # 0
        /\ pre.finalDir["node"][mrss] = mrss
        /\ finalDir["node"][mrss] = NoFlag
        /\ \E j \in Index : j < mrss /\ pre.logdb[j] # "none"

\* C20: Compact deletes the selected snapshots one at a time, lowest index
\* first: at every point of a Compact, and so in the state an error or a
\* crash leaves, the records still listed are the highest-indexed ones of the
\* list from before the call, unchanged, and at most one index has lost its
\* record in this call while its final directory is still there.
C20_CompactSuffix ==
  pc \in {"compact_del", "compact_rmdir", "compact_done"} =>
    LET before == ListSnapshots(pre.logdb, MaxIndex)
        now == ListSnapshots(logdb, MaxIndex)
        halfway == {i \in Index : /\ pre.logdb[i] # "none"
                                  /\ logdb[i] = "none"
                                  /\ pre.finalDir["node"][i] # Absent
                                  /\ finalDir["node"][i] # Absent}
    IN /\ \E k \in 0..Len(before) : now = SubSeq(before, k + 1, Len(before))
       /\ \A i \in Records(logdb) : logdb[i] = pre.logdb[i]
       /\ Cardinality(halfway) <= 1
       /\ pc = "compact_del" => halfway = {}
       /\ \A i \in halfway : \A j \in Records(logdb) : i < j

C20_Witness ==
  /\ pc = "compact_done" /\ result = "err"
  /\ \E i, j \in Index :
       /\ i < j
       /\ pre.logdb[i] # "none" /\ logdb[i] = "none"
       /\ pre.finalDir["node"][i] = NoFlag /\ finalDir["node"][i] = Absent
       /\ pre.logdb[j] # "none" /\ logdb[j] = "none"
       /\ pre.finalDir["node"][j] = NoFlag /\ finalDir["node"][j] = NoFlag
  /\ Len(ListSnapshots(logdb, MaxIndex)) = snapshotsToKeep

====
